---- MODULE Spec2Model ----
(***************************************************************************)
(* Model of ai-tool-adapter: the four provider converters                  *)
(* (openai, anthropic, gemini, mistral), the adapter registry and the      *)
(* public operations adapt, adaptAll and getProviders of src/index.ts.     *)
(*                                                                         *)
(* JavaScript values are encoded as follows.                               *)
(*   - an optional value is a sequence of length 0 or 1: <<>> is           *)
(*     `undefined' (a missing key reads as undefined), <<v>> is v;         *)
(*   - a value of type `unknown' (ToolParam.default) is a record           *)
(*     [t |-> typeof-tag, v |-> literal text];                             *)
(*   - an object whose keys are data (tool.params, the output              *)
(*     `properties') is the sequence of its own <<key, value>> entries in  *)
(*     creation order, next to its [[Prototype]] where the code can        *)
(*     change it.                                                          *)
(***************************************************************************)
EXTENDS Integers, Sequences, FiniteSets, TLC

\* Longest params mapping of a generated tool.
MaxParams == 2
\* Longest tool sequence handed to adaptAll.
MaxTools == 2

(***************************************************************************)
(* JavaScript values                                                       *)
(***************************************************************************)
Undefined == <<>>
Some(v) == <<v>>
IsDefined(o) == Len(o) > 0
Val(o) == o[1]

JsNull == [t |-> "null", v |-> "null"]
JsNumber(text) == [t |-> "number", v |-> text]
JsBoolean(text) == [t |-> "boolean", v |-> text]
JsString(text) == [t |-> "string", v |-> text]

\* ToBoolean of an optional string (`if (param.description)').
StringTruthy(o) == IsDefined(o) /\ Val(o) # ""

\* `if (paramDef.required !== undefined)': an explicit false counts as required.
BooleanTruthyWhenSupplied(o) == IsDefined(o)

\* ToBoolean of an optional boolean (`if (paramDef.required)').
BooleanTruthy(o) == IsDefined(o) /\ Val(o) = TRUE

\* ToBoolean of an optional value of type unknown.
ToBoolean(o) ==
    /\ IsDefined(o)
    /\ CASE Val(o).t = "null" -> FALSE
         [] Val(o).t = "boolean" -> Val(o).v = "true"
         [] Val(o).t = "number" -> Val(o).v \notin {"0", "-0", "NaN"}
         [] Val(o).t = "string" -> Val(o).v # ""
         [] OTHER -> TRUE

\* String.prototype.toUpperCase on the strings that occur in the model.
toUpperCase(s) ==
    CASE s = "string" -> "STRING"
      [] s = "number" -> "NUMBER"
      [] s = "boolean" -> "BOOLEAN"
      [] s = "array" -> "ARRAY"
      [] s = "object" -> "OBJECT"
      [] s = "get_Weather" -> "GET_WEATHER"
      [] s = "Get weather" -> "GET WEATHER"
      [] s = "City name" -> "CITY NAME"
      [] s = "celsius" -> "CELSIUS"
      [] s = "Fahrenheit" -> "FAHRENHEIT"
      [] s = "location" -> "LOCATION"
      [] s = "units" -> "UNITS"
      [] OTHER -> s

\* The value of a key as an array index, -1 when the key is not a canonical
\* numeric string (the keys that OrdinaryOwnPropertyKeys lists first).
ArrayIndex(k) ==
    CASE k = "0" -> 0
      [] k = "1" -> 1
      [] k = "2" -> 2
      [] k = "10" -> 10
      [] OTHER -> -1

Keys(entries) == [i \in 1..Len(entries) |-> entries[i][1]]

Range(s) == {s[i] : i \in 1..Len(s)}

RECURSIVE IntegerEntries(_, _)
\* The entries with an array-index key greater than `above', ascending.
IntegerEntries(entries, above) ==
    LET idx == {ArrayIndex(entries[i][1]) : i \in 1..Len(entries)}
        rest == {n \in idx : n > above}
    IN  IF rest = {} THEN <<>>
        ELSE LET m == CHOOSE n \in rest : \A o \in rest : n <= o
                 i == CHOOSE j \in 1..Len(entries) : ArrayIndex(entries[j][1]) = m
             IN  <<entries[i]>> \o IntegerEntries(entries, m)

IsStringKeyed(e) == ArrayIndex(e[1]) = -1

\* Object.entries: array-index keys in ascending order, then the other keys
\* in creation order.
ObjectEntries(entries) ==
    IntegerEntries(entries, -1) \o SelectSeq(entries, IsStringKeyed)

\* Object.keys.
ObjectKeys(entries) == Keys(ObjectEntries(entries))

\* A fresh object literal `{}': no own entry, Object.prototype as prototype.
EmptyObject == [own |-> <<>>, proto |-> Undefined]

\* obj[key] = value on an ordinary object that inherits from
\* Object.prototype: "__proto__" is the inherited accessor, whose setter
\* replaces the prototype by the (object) value; any other key becomes or
\* updates an own entry.
ObjectSet(obj, key, value) ==
    IF key = "__proto__"
    THEN [obj EXCEPT !.proto = Some(value)]
    ELSE IF \E i \in 1..Len(obj.own) : obj.own[i][1] = key
    THEN [obj EXCEPT !.own =
            [i \in 1..Len(obj.own) |->
                IF obj.own[i][1] = key THEN <<key, value>> ELSE obj.own[i]]]
    ELSE [obj EXCEPT !.own = Append(obj.own, <<key, value>>)]

\* The own enumerable keys of an output object, as Object.keys lists them.
OwnKeys(obj) == ObjectKeys(obj.own)

HasOwn(obj, key) == \E i \in 1..Len(obj.own) : obj.own[i][1] = key

\* obj[key] for a key that is an own entry or "__proto__" (the inherited
\* getter, which returns the prototype when the code replaced it).
ObjectGet(obj, key) ==
    IF HasOwn(obj, key)
    THEN Some((CHOOSE e \in Range(obj.own) : e[1] = key)[2])
    ELSE IF key = "__proto__" THEN obj.proto
    ELSE Undefined

(***************************************************************************)
(* The universal schema (src/src/types.ts) and the generated inputs        *)
(***************************************************************************)
ParamType == {"string", "number", "boolean", "array", "object"}

\* A ToolParam: `type' is mandatory, every other field optional.
ToolParam(type, description, required, default, enum, items, properties) ==
    [type |-> type, description |-> description, required |-> required,
     default |-> default, enum |-> enum, items |-> items,
     properties |-> properties]

Descriptions == {Undefined, Some(""), Some("City name")}
Requireds == {Undefined, Some(FALSE), Some(TRUE)}
Defaults == {Undefined, Some(JsNumber("0")), Some(JsBoolean("false")),
             Some(JsString("")), Some(JsNull)}
Enums == {Undefined, Some(<<>>), Some(<<"celsius", "Fahrenheit", "celsius">>)}
\* The last one carries a field the declared type of items does not name.
Items == {Undefined, Some([type |-> "string"]),
          Some([type |-> "number", description |-> "An item"])}

\* Every combination of the optional fields, for one-parameter tools.
WideParams ==
    {ToolParam(ty, d, r, df, e, it, Undefined) :
        ty \in ParamType, d \in Descriptions, r \in Requireds,
        df \in Defaults, e \in Enums, it \in Items}

\* The parameters of the tools with several parameters.
CoreParams ==
    {ToolParam("string", Some("City name"), Some(TRUE), Undefined, Undefined,
               Undefined, Undefined),
     ToolParam("string", Undefined, Undefined, Some(JsString("celsius")),
               Some(<<"celsius", "Fahrenheit">>), Undefined, Undefined),
     ToolParam("array", Some(""), Some(FALSE), Undefined, Undefined,
               Some([type |-> "number"]), Undefined),
     ToolParam("object", Undefined, Some(TRUE), Some(JsNumber("42")), Undefined,
               Some([type |-> "boolean"]),
               Some(<<"nested">>))}

\* Parameter names: two plain names, an array-index key, which
\* Object.entries moves to the front, and "__proto__", an own key of a
\* params mapping that comes from JSON.parse.
ParamNames == {"units", "location", "2", "__proto__"}

\* A params mapping is the sequence of its entries in insertion order; its
\* keys are unique.
ParamSeqs(n) ==
    {s \in [1..n -> ParamNames \X CoreParams] :
        \A i, j \in 1..n : s[i][1] = s[j][1] => i = j}

UniversalTool(name, description, params) ==
    [name |-> name, description |-> description, params |-> params]

CoreTools ==
    {UniversalTool("get_Weather", d, ps) :
        d \in {Undefined, Some("Get weather")},
        ps \in UNION {ParamSeqs(n) : n \in 0..MaxParams}}

WideTools ==
    {UniversalTool("get_Weather", Some("Get weather"), <<<<"location", p>>>>) :
        p \in WideParams}

Tools == CoreTools \cup WideTools

\* The tools that adaptAll is given sequences of.
BatchTools ==
    {UniversalTool("get_Weather", Some("Get weather"), <<>>),
     UniversalTool("get_Weather", Undefined,
        <<<<"location", ToolParam("string", Some("City name"), Some(TRUE),
                                  Undefined, Undefined, Undefined, Undefined)>>>>),
     UniversalTool("get_Weather", Some("Get weather"),
        <<<<"units", ToolParam("string", Undefined, Undefined,
                               Some(JsString("celsius")),
                               Some(<<"celsius", "Fahrenheit">>), Undefined,
                               Undefined)>>,
          <<"2", ToolParam("array", Undefined, Some(TRUE), Undefined, Undefined,
                           Some([type |-> "number"]), Undefined)>>>>)}

ToolSeqs == UNION {[1..n -> BatchTools] : n \in 0..MaxTools}

(***************************************************************************)
(* The converters                                                          *)
(***************************************************************************)

\* openai convertParam that upper-cases the type tags as gemini does.
openaiConvertParamUpper(param) ==
    [type |-> toUpperCase(param.type),
     description |->
        IF StringTruthy(param.description) THEN param.description ELSE Undefined,
     enum |-> IF IsDefined(param.enum) THEN param.enum ELSE Undefined,
     default |-> IF IsDefined(param.default) THEN param.default ELSE Undefined,
     items |->
        IF param.type = "array" /\ IsDefined(param.items)
        THEN Some([type |-> toUpperCase(Val(param.items).type)]) ELSE Undefined]

\* src/adapters/openai.ts convertParam
openaiConvertParam(param) ==
    [type |-> param.type,
     description |->
        IF StringTruthy(param.description) THEN param.description ELSE Undefined,
     enum |-> IF IsDefined(param.enum) THEN param.enum ELSE Undefined,
     default |-> IF IsDefined(param.default) THEN param.default ELSE Undefined,
     items |->
        IF param.type = "array" /\ IsDefined(param.items)
        THEN Some([type |-> Val(param.items).type]) ELSE Undefined]

\* anthropic convertParam with `if (param.default)': a falsy default is dropped.
anthropicConvertParamTruthyDefault(param) ==
    [type |-> param.type,
     description |->
        IF StringTruthy(param.description) THEN param.description ELSE Undefined,
     enum |-> IF IsDefined(param.enum) THEN param.enum ELSE Undefined,
     default |-> IF ToBoolean(param.default) THEN param.default ELSE Undefined,
     items |->
        IF param.type = "array" /\ IsDefined(param.items)
        THEN Some([type |-> Val(param.items).type]) ELSE Undefined]

\* anthropic convertParam with `property.items = param.items': the whole
\* items object of the input, whatever it holds.
anthropicConvertParamWholeItems(param) ==
    [type |-> param.type,
     description |->
        IF StringTruthy(param.description) THEN param.description ELSE Undefined,
     enum |-> IF IsDefined(param.enum) THEN param.enum ELSE Undefined,
     default |-> IF IsDefined(param.default) THEN param.default ELSE Undefined,
     items |->
        IF param.type = "array" /\ IsDefined(param.items)
        THEN param.items ELSE Undefined]

\* src/adapters/anthropic.ts convertParam
anthropicConvertParam(param) ==
    [type |-> param.type,
     description |->
        IF StringTruthy(param.description) THEN param.description ELSE Undefined,
     enum |-> IF IsDefined(param.enum) THEN param.enum ELSE Undefined,
     default |-> IF IsDefined(param.default) THEN param.default ELSE Undefined,
     items |->
        IF param.type = "array" /\ IsDefined(param.items)
        THEN Some([type |-> Val(param.items).type]) ELSE Undefined]

toGeminiType(type) == toUpperCase(type)

\* gemini convertParam that copies the item type without upper-casing it.
geminiConvertParamLowerItems(param) ==
    [type |-> toGeminiType(param.type),
     description |->
        IF StringTruthy(param.description) THEN param.description ELSE Undefined,
     enum |-> IF IsDefined(param.enum) THEN param.enum ELSE Undefined,
     default |-> IF IsDefined(param.default) THEN param.default ELSE Undefined,
     items |->
        IF param.type = "array" /\ IsDefined(param.items)
        THEN Some([type |-> Val(param.items).type]) ELSE Undefined]

\* gemini convertParam that upper-cases the enum values with the type tags.
geminiConvertParamUpperEnum(param) ==
    [type |-> toGeminiType(param.type),
     description |->
        IF StringTruthy(param.description) THEN param.description ELSE Undefined,
     enum |->
        IF IsDefined(param.enum)
        THEN Some([i \in 1..Len(Val(param.enum)) |-> toUpperCase(Val(param.enum)[i])])
        ELSE Undefined,
     default |-> IF IsDefined(param.default) THEN param.default ELSE Undefined,
     items |->
        IF param.type = "array" /\ IsDefined(param.items)
        THEN Some([type |-> toGeminiType(Val(param.items).type)]) ELSE Undefined]

\* gemini convertParam with `if (param.enum && param.enum.length)': an empty
\* enum is dropped.
geminiConvertParamNoEmptyEnum(param) ==
    [type |-> toGeminiType(param.type),
     description |->
        IF StringTruthy(param.description) THEN param.description ELSE Undefined,
     enum |-> IF IsDefined(param.enum) /\ Val(param.enum) # <<>>
              THEN param.enum ELSE Undefined,
     default |-> IF IsDefined(param.default) THEN param.default ELSE Undefined,
     items |->
        IF param.type = "array" /\ IsDefined(param.items)
        THEN Some([type |-> toGeminiType(Val(param.items).type)]) ELSE Undefined]

\* src/adapters/gemini.ts convertParam
geminiConvertParam(param) ==
    [type |-> toGeminiType(param.type),
     description |->
        IF StringTruthy(param.description) THEN param.description ELSE Undefined,
     enum |-> IF IsDefined(param.enum) THEN param.enum ELSE Undefined,
     default |-> IF IsDefined(param.default) THEN param.default ELSE Undefined,
     items |->
        IF param.type = "array" /\ IsDefined(param.items)
        THEN Some([type |-> toGeminiType(Val(param.items).type)]) ELSE Undefined]

\* mistral convertParam that tests the default for truthiness, unlike openai.
mistralConvertParamTruthyDefault(param) ==
    [type |-> param.type,
     description |->
        IF StringTruthy(param.description) THEN param.description ELSE Undefined,
     enum |-> IF IsDefined(param.enum) THEN param.enum ELSE Undefined,
     default |-> IF ToBoolean(param.default) THEN param.default ELSE Undefined,
     items |->
        IF param.type = "array" /\ IsDefined(param.items)
        THEN Some([type |-> Val(param.items).type]) ELSE Undefined]

\* mistral convertParam that also copies the required flag into the property.
mistralConvertParamWithRequired(param) ==
    [type |-> param.type,
     description |->
        IF StringTruthy(param.description) THEN param.description ELSE Undefined,
     enum |-> IF IsDefined(param.enum) THEN param.enum ELSE Undefined,
     default |-> IF IsDefined(param.default) THEN param.default ELSE Undefined,
     items |->
        IF param.type = "array" /\ IsDefined(param.items)
        THEN Some([type |-> Val(param.items).type]) ELSE Undefined,
     required |-> param.required]

\* src/adapters/mistral.ts convertParam
mistralConvertParam(param) ==
    [type |-> param.type,
     description |->
        IF StringTruthy(param.description) THEN param.description ELSE Undefined,
     enum |-> IF IsDefined(param.enum) THEN param.enum ELSE Undefined,
     default |-> IF IsDefined(param.default) THEN param.default ELSE Undefined,
     items |->
        IF param.type = "array" /\ IsDefined(param.items)
        THEN Some([type |-> Val(param.items).type]) ELSE Undefined]

\* The accumulators of a converter's loop before its first iteration.
LoopStart == [properties |-> EmptyObject, required |-> <<>>]

RECURSIVE openaiLoop(_, _, _)
\* for (const [paramName, paramDef] of Object.entries(tool.params)) { ... }
openaiLoop(entries, i, acc) ==
    IF i > Len(entries) THEN acc
    ELSE openaiLoop(entries, i + 1,
            [properties |->
                ObjectSet(acc.properties, entries[i][1],
                          openaiConvertParam(entries[i][2])),
             required |->
                IF BooleanTruthy(entries[i][2].required)
                THEN Append(acc.required, entries[i][1]) ELSE acc.required])

openaiAdapter(tool) ==
    LET acc == openaiLoop(ObjectEntries(tool.params), 1, LoopStart)
    IN  [type |-> "function",
         function |->
            [name |-> tool.name,
             description |-> tool.description,
             parameters |->
                [type |-> "object",
                 properties |-> acc.properties,
                 required |-> acc.required]]]

RECURSIVE anthropicLoop(_, _, _)
anthropicLoop(entries, i, acc) ==
    IF i > Len(entries) THEN acc
    ELSE anthropicLoop(entries, i + 1,
            [properties |->
                ObjectSet(acc.properties, entries[i][1],
                          anthropicConvertParam(entries[i][2])),
             required |->
                IF BooleanTruthy(entries[i][2].required)
                THEN Append(acc.required, entries[i][1]) ELSE acc.required])

\* anthropicAdapter that names its schema key as the other converters do.
anthropicAdapterParametersKey(tool) ==
    LET acc == anthropicLoop(ObjectEntries(tool.params), 1, LoopStart)
    IN  [name |-> tool.name,
         description |-> tool.description,
         parameters |->
            [type |-> "object",
             properties |-> acc.properties,
             required |-> acc.required]]

anthropicAdapter(tool) ==
    LET acc == anthropicLoop(ObjectEntries(tool.params), 1, LoopStart)
    IN  [name |-> tool.name,
         description |-> tool.description,
         input_schema |->
            [type |-> "object",
             properties |-> acc.properties,
             required |-> acc.required]]

RECURSIVE geminiLoop(_, _, _)
geminiLoop(entries, i, acc) ==
    IF i > Len(entries) THEN acc
    ELSE geminiLoop(entries, i + 1,
            [properties |->
                ObjectSet(acc.properties, entries[i][1],
                          geminiConvertParam(entries[i][2])),
             required |->
                IF BooleanTruthy(entries[i][2].required)
                THEN Append(acc.required, entries[i][1]) ELSE acc.required])

\* geminiAdapter that upper-cases the tool name as it does the type tags.
geminiAdapterUpperName(tool) ==
    LET acc == geminiLoop(ObjectEntries(tool.params), 1, LoopStart)
    IN  [name |-> toUpperCase(tool.name),
         description |-> tool.description,
         parameters |->
            [type |-> "OBJECT",
             properties |-> acc.properties,
             required |-> acc.required]]

\* geminiAdapter with the container tag of the other converters.
geminiAdapterLowerContainer(tool) ==
    LET acc == geminiLoop(ObjectEntries(tool.params), 1, LoopStart)
    IN  [name |-> tool.name,
         description |-> tool.description,
         parameters |->
            [type |-> "object",
             properties |-> acc.properties,
             required |-> acc.required]]

geminiAdapter(tool) ==
    LET acc == geminiLoop(ObjectEntries(tool.params), 1, LoopStart)
    IN  [name |-> tool.name,
         description |-> tool.description,
         parameters |->
            [type |-> "OBJECT",
             properties |-> acc.properties,
             required |-> acc.required]]

RECURSIVE mistralLoop(_, _, _)
mistralLoop(entries, i, acc) ==
    IF i > Len(entries) THEN acc
    ELSE mistralLoop(entries, i + 1,
            [properties |->
                ObjectSet(acc.properties, entries[i][1],
                          mistralConvertParam(entries[i][2])),
             required |->
                IF BooleanTruthy(entries[i][2].required)
                THEN Append(acc.required, entries[i][1]) ELSE acc.required])

\* mistralAdapter without the {type, function} wrapper.
mistralAdapterFlat(tool) ==
    LET acc == mistralLoop(ObjectEntries(tool.params), 1, LoopStart)
    IN  [name |-> tool.name,
         description |-> tool.description,
         parameters |->
            [type |-> "object",
             properties |-> acc.properties,
             required |-> acc.required]]

mistralAdapter(tool) ==
    LET acc == mistralLoop(ObjectEntries(tool.params), 1, LoopStart)
    IN  [type |-> "function",
         function |->
            [name |-> tool.name,
             description |-> tool.description,
             parameters |->
                [type |-> "object",
                 properties |-> acc.properties,
                 required |-> acc.required]]]

(***************************************************************************)
(* The registry and the public operations (src/src/index.ts)               *)
(***************************************************************************)
VARIABLES
    adapters,   \* the registry object: its own <<identifier, converter>> entries
    pc,         \* "idle", or "returned" after a call of the public interface
    call,       \* the call last made: operation and arguments
    outcome,    \* how it ended: a value returned or an error thrown
    invoked,    \* the functions it invoked through the registry, in order
    lookups,    \* the number of its registry lookups `adapters[provider]'
    failed,     \* whether a call made so far ended with an error
    remembered, \* an earlier adapt call and its outcome, kept by the caller
    heap,       \* the objects of the caller and of the outputs, by address
    held,       \* what the caller holds: its tool, the outputs, its edits
    frames      \* the activation of each caller's call: position and locals

vars == <<adapters, pc, call, outcome, invoked, lookups, failed, remembered,
          heap, held, frames>>

\* const adapters = { openai: ..., anthropic: ..., gemini: ..., mistral: ... }
AdaptersLiteral ==
    <<<<"openai", "openaiAdapter">>, <<"anthropic", "anthropicAdapter">>,
      <<"gemini", "geminiAdapter">>, <<"mistral", "mistralAdapter">>>>

\* The members every object literal inherits from Object.prototype.
ObjectPrototypeFunctions ==
    {"constructor", "toString", "toLocaleString", "valueOf", "hasOwnProperty",
     "isPrototypeOf", "propertyIsEnumerable", "__defineGetter__",
     "__defineSetter__", "__lookupGetter__", "__lookupSetter__"}

\* adapters[provider]: an own entry, else what the prototype chain holds:
\* a built-in function, or for "__proto__" Object.prototype itself.
Lookup(registry, provider) ==
    IF \E i \in 1..Len(registry) : registry[i][1] = provider
    THEN [kind |-> "converter",
          name |-> (CHOOSE e \in Range(registry) : e[1] = provider)[2]]
    ELSE IF provider \in ObjectPrototypeFunctions
    THEN [kind |-> "builtin", name |-> provider]
    ELSE IF provider = "__proto__"
    THEN [kind |-> "object", name |-> "Object.prototype"]
    ELSE [kind |-> "undefined", name |-> ""]

\* getProviders with Object.values for Object.keys.
getProvidersValues(registry) ==
    [i \in 1..Len(ObjectEntries(registry)) |-> ObjectEntries(registry)[i][2]]

\* getProviders that lists nothing once a call has failed.
getProvidersAfterFailure(registry) ==
    IF failed THEN <<>> ELSE ObjectKeys(registry)

\* getProviders: Object.keys(adapters)
getProviders(registry) == ObjectKeys(registry)

Returned(shape, value) ==
    [kind |-> "return", shape |-> shape, value |-> Some(value),
     error |-> Undefined]

Thrown(error) ==
    [kind |-> "throw", shape |-> "", value |-> Undefined, error |-> Some(error)]

\* new Error(`Unknown provider: ${provider}. Supported providers:
\* ${getProviders().join(', ')}`): the template's literal parts and its two
\* substitutions, the joined list kept as the sequence of its elements.
UnknownProviderError(registry, provider) ==
    [name |-> "Error",
     head |-> "Unknown provider: ",
     provider |-> Some(provider),
     middle |-> ". Supported providers: ",
     providers |-> Some(getProviders(registry))]

\* The TypeError of the engine for a call that cannot be made.
TypeError(text) ==
    [name |-> "TypeError", head |-> text, provider |-> Undefined, middle |-> "",
     providers |-> Undefined]

\* A dispatch in which the gemini and the anthropic converters are crossed.
ConvertCrossed(name, tool) ==
    CASE name = "openaiAdapter" -> Returned("openai", openaiAdapter(tool))
      [] name = "anthropicAdapter" -> Returned("anthropic", geminiAdapter(tool))
      [] name = "geminiAdapter" -> Returned("gemini", anthropicAdapter(tool))
      [] name = "mistralAdapter" -> Returned("mistral", mistralAdapter(tool))

\* adapter(tool) for a registered converter.
Convert(name, tool) ==
    CASE name = "openaiAdapter" -> Returned("openai", openaiAdapter(tool))
      [] name = "anthropicAdapter" -> Returned("anthropic", anthropicAdapter(tool))
      [] name = "geminiAdapter" -> Returned("gemini", geminiAdapter(tool))
      [] name = "mistralAdapter" -> Returned("mistral", mistralAdapter(tool))

\* adapter(tool) for a function inherited from Object.prototype, called
\* with `this' undefined: Object(tool) is the tool itself, toString answers
\* for undefined, and every other member throws on ToObject(undefined).
CallBuiltin(name, tool) ==
    CASE name = "constructor" -> Returned("tool", tool)
      [] name = "toString" -> Returned("string", "[object Undefined]")
      [] OTHER -> Thrown(TypeError("Cannot convert undefined or null to object"))

\* adapt whose registry lookup finds nothing once a call has failed.
adaptPoisoned(registry, tool, provider) ==
    LET adapter == IF failed THEN [kind |-> "undefined", name |-> ""]
                   ELSE Lookup(registry, provider)
    IN  IF adapter.kind = "undefined"
        THEN [outcome |-> Thrown(UnknownProviderError(registry, provider)),
              invoked |-> <<>>, lookups |-> 1]
        ELSE IF adapter.kind = "object"
        THEN [outcome |-> Thrown(TypeError("adapter is not a function")),
              invoked |-> <<>>, lookups |-> 1]
        ELSE IF adapter.kind = "builtin"
        THEN [outcome |-> CallBuiltin(adapter.name, tool),
              invoked |-> <<adapter.name>>, lookups |-> 1]
        ELSE [outcome |-> Convert(adapter.name, tool),
              invoked |-> <<adapter.name>>, lookups |-> 1]

\* adapt(tool, provider): the outcome, the functions invoked and the
\* number of registry lookups.
adapt(registry, tool, provider) ==
    LET adapter == Lookup(registry, provider)
    IN  IF adapter.kind = "undefined"
        THEN [outcome |-> Thrown(UnknownProviderError(registry, provider)),
              invoked |-> <<>>, lookups |-> 1]
        ELSE IF adapter.kind = "object"
        THEN [outcome |-> Thrown(TypeError("adapter is not a function")),
              invoked |-> <<>>, lookups |-> 1]
        ELSE IF adapter.kind = "builtin"
        THEN [outcome |-> CallBuiltin(adapter.name, tool),
              invoked |-> <<adapter.name>>, lookups |-> 1]
        ELSE [outcome |-> Convert(adapter.name, tool),
              invoked |-> <<adapter.name>>, lookups |-> 1]

RECURSIVE adaptAllFrom(_, _, _, _, _)
\* tools.map((tool) => adapt(tool, provider)) from element i on: the
\* callback runs once per element, in order, and an error it throws ends
\* the call.
adaptAllFrom(registry, tools, provider, i, acc) ==
    IF i > Len(tools)
    THEN [outcome |-> Returned("list", acc.values),
          invoked |-> acc.invoked, lookups |-> acc.lookups]
    ELSE LET r == adapt(registry, tools[i], provider)
         IN  IF r.outcome.kind = "throw"
             THEN [outcome |-> r.outcome,
                   invoked |-> acc.invoked \o r.invoked,
                   lookups |-> acc.lookups + r.lookups]
             ELSE adaptAllFrom(registry, tools, provider, i + 1,
                    [values |-> Append(acc.values, Val(r.outcome.value)),
                     invoked |-> acc.invoked \o r.invoked,
                     lookups |-> acc.lookups + r.lookups])

\* adaptAll whose iteration starts one element late.
adaptAllSkipFirst(registry, tools, provider) ==
    adaptAllFrom(registry, tools, provider, 2,
                 [values |-> <<>>, invoked |-> <<>>, lookups |-> 0])

adaptAll(registry, tools, provider) ==
    adaptAllFrom(registry, tools, provider, 1,
                 [values |-> <<>>, invoked |-> <<>>, lookups |-> 0])

Provider == {"openai", "anthropic", "gemini", "mistral"}

\* The identifiers a caller passes: `provider' is a string at run time.
ProviderIds ==
    Provider \cup {"unknown", "invalid", "", "OpenAI", "toString",
                   "constructor", "__proto__", "valueOf"}

NoCall == [op |-> "none", tool |-> Undefined, tools |-> Undefined,
           provider |-> Undefined]

NoOutcome == [kind |-> "none", shape |-> "", value |-> Undefined,
              error |-> Undefined]

\* The caller holds no object.
NothingHeld == [tool |-> Undefined, outputs |-> <<>>, edits |-> 0]

\* The caller has kept no call.
NoMemory == [call |-> NoCall, outcome |-> NoOutcome, failed |-> FALSE]

\* The callers whose calls may overlap.
Callers == {"first", "second"}

\* No call in progress: the locals of an activation not yet entered.
NoFrame ==
    [pos |-> "idle", op |-> "none", tools |-> <<>>, provider |-> "", k |-> 0,
     i |-> 0, acc |-> [properties |-> EmptyObject, required |-> <<>>],
     values |-> <<>>, result |-> NoOutcome, overlapped |-> FALSE]

NoFrames == [c \in Callers |-> NoFrame]

Init ==
    /\ adapters = AdaptersLiteral
    /\ pc = "idle"
    /\ call = NoCall
    /\ outcome = NoOutcome
    /\ invoked = <<>>
    /\ lookups = 0
    /\ failed = FALSE
    /\ remembered = NoMemory
    /\ heap = <<>>
    /\ held = NothingHeld
    /\ frames = NoFrames

\* A caller calls adapt(tool, provider) with one of `tools'.
AdaptOf(tools) ==
    /\ pc = "idle"
    /\ \E tool \in tools, provider \in ProviderIds :
        LET r == adapt(adapters, tool, provider)
        IN  /\ outcome' = r.outcome
            /\ invoked' = r.invoked
            /\ lookups' = r.lookups
            /\ failed' = (failed \/ r.outcome.kind = "throw")
            /\ call' = [op |-> "adapt", tool |-> Some(tool),
                        tools |-> Undefined, provider |-> Some(provider)]
    /\ pc' = "returned"
    /\ UNCHANGED <<adapters, remembered, heap, held, frames>>

\* A caller calls adapt(tool, provider).
Adapt == AdaptOf(Tools)

\* A caller calls adaptAll(tools, provider).
AdaptAll ==
    /\ pc = "idle"
    /\ \E tools \in ToolSeqs, provider \in ProviderIds :
        LET r == adaptAll(adapters, tools, provider)
        IN  /\ outcome' = r.outcome
            /\ invoked' = r.invoked
            /\ lookups' = r.lookups
            /\ failed' = (failed \/ r.outcome.kind = "throw")
            /\ call' = [op |-> "adaptAll", tool |-> Undefined,
                        tools |-> Some(tools), provider |-> Some(provider)]
    /\ pc' = "returned"
    /\ UNCHANGED <<adapters, remembered, heap, held, frames>>

\* A caller calls getProviders().
GetProviders ==
    /\ pc = "idle"
    /\ outcome' = Returned("providers", getProviders(adapters))
    /\ invoked' = <<>>
    /\ lookups' = 0
    /\ call' = [op |-> "getProviders", tool |-> Undefined, tools |-> Undefined,
                provider |-> Undefined]
    /\ pc' = "returned"
    /\ UNCHANGED <<adapters, failed, remembered, heap, held, frames>>

\* The caller has the outcome and goes on to its next call.
Continue ==
    /\ pc = "returned"
    /\ pc' = "idle"
    /\ call' = NoCall
    /\ outcome' = NoOutcome
    /\ invoked' = <<>>
    /\ lookups' = 0
    /\ UNCHANGED <<adapters, failed, remembered, heap, held, frames>>

Next ==
    \/ Adapt
    \/ AdaptAll
    \/ GetProviders
    \/ Continue

Spec == Init /\ [][Next]_vars

(***************************************************************************)
(* Repeated calls: the caller keeps the outcome of an adapt call and       *)
(* compares it with a later call of the same arguments.                    *)
(***************************************************************************)

\* A caller calls adapt with one of the batch tools.
AdaptAgain == AdaptOf(BatchTools)

\* The caller keeps the adapt call just made, with its outcome, and goes on.
Remember ==
    /\ pc = "returned"
    /\ call.op = "adapt"
    /\ remembered' = [call |-> call, outcome |-> outcome, failed |-> failed]
    /\ pc' = "idle"
    /\ call' = NoCall
    /\ outcome' = NoOutcome
    /\ invoked' = <<>>
    /\ lookups' = 0
    /\ UNCHANGED <<adapters, failed, heap, held, frames>>

NextRepeat ==
    \/ AdaptAgain
    \/ AdaptAll
    \/ GetProviders
    \/ Remember
    \/ Continue

SpecRepeat == Init /\ [][NextRepeat]_vars

(***************************************************************************)
(* Object identity.  An object has an address; a field holds a primitive   *)
(* <<"prim", typeof-tag, text>> or a reference <<"ref", ...path>>, which   *)
(* is the address of the object referred to.  An assignment of a field     *)
(* that holds a reference copies the reference, not the object; an object  *)
(* or array literal makes an object at an address not used before.         *)
(***************************************************************************)

\* Most conversions of the held tool in one behaviour.
MaxConversions == 2
\* Most modifications of an output by the caller in one behaviour.
MaxEdits == 1

Prim(t, v) == <<"prim", t, v>>
IsRef(x) == x[1] = "ref"

\* `{ k1: v1, ... }': a new object with these own entries.
ObjectLiteral(entries) ==
    [own |-> entries, elems |-> <<>>, proto |-> Undefined, array |-> FALSE]

\* `[v1, ...]': a new array with these elements.
ArrayLiteral(elems) ==
    [own |-> <<>>, elems |-> elems, proto |-> Undefined, array |-> TRUE]

\* The heap with a new object at address a.
hNew(h, a, object) == (a :> object) @@ h

\* h[a][key] = value
hSet(h, a, key, value) == [h EXCEPT ![a] = ObjectSet(h[a], key, value)]

\* h[a].push(value)
hPush(h, a, value) == [h EXCEPT ![a].elems = Append(h[a].elems, value)]

\* h[a][key], undefined when the key is missing.
hGet(h, a, key) == ObjectGet(h[a], key)

\* ToBoolean of a field read: a reference is an object, hence true.
FieldTruthy(o) ==
    /\ IsDefined(o)
    /\ \/ IsRef(Val(o))
       \/ ToBoolean(Some([t |-> Val(o)[2], v |-> Val(o)[3]]))

\* The references an object holds.
Refs(object) ==
    {e[2] : e \in {x \in Range(object.own) : IsRef(x[2])}}
    \cup {x \in Range(object.elems) : IsRef(x)}
    \cup (IF IsDefined(object.proto) THEN {Val(object.proto)} ELSE {})

RECURSIVE ReachFrom(_, _, _)
ReachFrom(h, frontier, seen) ==
    IF frontier = {} THEN seen
    ELSE LET next == (UNION {Refs(h[a]) : a \in frontier}) \ (seen \cup frontier)
         IN  ReachFrom(h, next, seen \cup frontier)

\* The addresses of the objects reachable from the object at address a.
Reach(h, a) == ReachFrom(h, {a}, {})

\* The caller's tool object.
ToolRoot == <<"ref", "tool">>

\* The field that holds an optional string.
StringField(key, o) ==
    IF IsDefined(o) THEN <<<<key, Prim("string", Val(o))>>>> ELSE <<>>

\* A default that is an array literal of one string.
JsArray(text) == [t |-> "array", v |-> text]

\* The objects of one parameter definition at address a: the definition,
\* its enum array, its items object and its default when that is an array.
StoreParam(a, param) ==
    (a :> ObjectLiteral(
            <<<<"type", Prim("string", param.type)>>>>
            \o StringField("description", param.description)
            \o (IF IsDefined(param.required)
                THEN <<<<"required", Prim("boolean",
                            IF Val(param.required) THEN "true" ELSE "false")>>>>
                ELSE <<>>)
            \o (IF ~IsDefined(param.default) THEN <<>>
                ELSE IF Val(param.default).t = "array"
                THEN <<<<"default", a \o <<"default">>>>>>
                ELSE <<<<"default",
                         Prim(Val(param.default).t, Val(param.default).v)>>>>)
            \o (IF IsDefined(param.enum)
                THEN <<<<"enum", a \o <<"enum">>>>>> ELSE <<>>)
            \o (IF IsDefined(param.items)
                THEN <<<<"items", a \o <<"items">>>>>> ELSE <<>>)))
    @@ (IF IsDefined(param.default) /\ Val(param.default).t = "array"
        THEN (a \o <<"default">>) :>
                ArrayLiteral(<<Prim("string", Val(param.default).v)>>)
        ELSE <<>>)
    @@ (IF IsDefined(param.enum)
        THEN (a \o <<"enum">>) :>
                ArrayLiteral([i \in 1..Len(Val(param.enum)) |->
                                Prim("string", Val(param.enum)[i])])
        ELSE <<>>)
    @@ (IF IsDefined(param.items)
        THEN (a \o <<"items">>) :>
                ObjectLiteral(<<<<"type", Prim("string", Val(param.items).type)>>>>)
        ELSE <<>>)

RECURSIVE StoreParams(_, _, _)
StoreParams(a, params, i) ==
    IF i > Len(params) THEN <<>>
    ELSE StoreParam(a \o <<params[i][1]>>, params[i][2])
         @@ StoreParams(a, params, i + 1)

\* The objects of a tool the caller built, the tool at ToolRoot: every key
\* of params is an own entry, in insertion order.
StoreTool(tool) ==
    (ToolRoot :> ObjectLiteral(
            <<<<"name", Prim("string", tool.name)>>>>
            \o StringField("description", tool.description)
            \o <<<<"params", ToolRoot \o <<"params">>>>>>))
    @@ ((ToolRoot \o <<"params">>) :> ObjectLiteral(
            [i \in 1..Len(tool.params) |->
                <<tool.params[i][1], ToolRoot \o <<"params", tool.params[i][1]>>>>]))
    @@ StoreParams(ToolRoot \o <<"params">>, tool.params, 1)

\* The tools the caller holds in the behaviours with object identity.
HeapTools ==
    {UniversalTool("get_Weather", Undefined, <<>>),
     UniversalTool("get_Weather", Some("Get weather"),
        <<<<"location", ToolParam("string", Some("City name"), Some(TRUE),
                                  Undefined, Undefined, Undefined, Undefined)>>>>),
     UniversalTool("get_Weather", Some("Get weather"),
        <<<<"units", ToolParam("string", Undefined, Undefined,
                               Some(JsString("celsius")),
                               Some(<<"celsius", "Fahrenheit">>), Undefined,
                               Undefined)>>,
          <<"2", ToolParam("array", Undefined, Some(TRUE), Undefined, Undefined,
                           Some([type |-> "number"]), Undefined)>>>>),
     UniversalTool("get_Weather", Undefined,
        <<<<"__proto__", ToolParam("string", Some(""), Some(TRUE),
                                   Some(JsNumber("0")), Undefined, Undefined,
                                   Undefined)>>,
          <<"location", ToolParam("array", Some("City name"), Some(FALSE),
                                  Some(JsArray("celsius")), Undefined,
                                  Some([type |-> "string"]), Undefined)>>>>)}

\* The provider's casing of a type tag.
Cased(provider, type) == IF provider = "gemini" THEN toGeminiType(type) ELSE type

\* Sequencing of statements: the heap `h' after one statement, computed
\* once, is the heap the rest of the body F runs on.
Then(h, F(_)) == CHOOSE after \in {F(before) : before \in {h}} : TRUE

\* A convertParam that cases the type of the parameter definition in place
\* before it builds the property.
hConvertParamInPlace(h, provider, param, property) ==
    Then(hSet(h, param, "type",
              Prim("string", Cased(provider, Val(hGet(h, param, "type"))[3]))),
    LAMBDA h1 :
    hNew(h1, property, ObjectLiteral(<<<<"type", Val(hGet(h1, param, "type"))>>>>)))

\* convertParam on objects: `param' is the address of the parameter
\* definition, `property' the address of the object the literal makes.
hConvertParam(h, provider, param, property) ==
    Then(hNew(h, property, ObjectLiteral(
            <<<<"type",
                Prim("string", Cased(provider, Val(hGet(h, param, "type"))[3]))>>>>)),
    LAMBDA h1 :
    Then(IF FieldTruthy(hGet(h1, param, "description"))
         THEN hSet(h1, property, "description", Val(hGet(h1, param, "description")))
         ELSE h1,
    LAMBDA h2 :
    Then(IF FieldTruthy(hGet(h2, param, "enum"))
         THEN hSet(h2, property, "enum", Val(hGet(h2, param, "enum")))
         ELSE h2,
    LAMBDA h3 :
    Then(IF IsDefined(hGet(h3, param, "default"))
         THEN hSet(h3, property, "default", Val(hGet(h3, param, "default")))
         ELSE h3,
    LAMBDA h4 :
    IF /\ Val(hGet(h4, param, "type"))[3] = "array"
       /\ FieldTruthy(hGet(h4, param, "items"))
    THEN Then(hNew(h4, property \o <<"items">>, ObjectLiteral(
                <<<<"type",
                    Prim("string",
                         Cased(provider,
                               Val(hGet(h4, Val(hGet(h4, param, "items")),
                                        "type"))[3]))>>>>)),
         LAMBDA h5 : hSet(h5, property, "items", property \o <<"items">>))
    ELSE h4))))

RECURSIVE hLoop(_, _, _, _, _)
\* The loop of a converter over Object.entries(tool.params), from entry i.
hLoop(h, provider, entries, i, out) ==
    IF i > Len(entries) THEN h
    ELSE LET paramName == entries[i][1]
             paramDef == entries[i][2]
             property == out \o <<"properties", paramName>>
         IN  Then(hConvertParam(h, provider, paramDef, property),
             LAMBDA h1 :
             Then(hSet(h1, out \o <<"properties">>, paramName, property),
             LAMBDA h2 :
             Then(IF FieldTruthy(hGet(h2, paramDef, "required"))
                  THEN hPush(h2, out \o <<"required">>, Prim("string", paramName))
                  ELSE h2,
             LAMBDA h3 : hLoop(h3, provider, entries, i + 1, out))))

\* The value of a field read that may be undefined.
FieldValue(o) == IF IsDefined(o) THEN Val(o) ELSE Prim("undefined", "")

\* The object a converter returns and the objects inside it, made on the
\* heap h1 the loop left: the schema refers to `properties' and `required'.
hEnvelope(h1, provider, tool, out) ==
    LET name == <<"name", FieldValue(hGet(h1, tool, "name"))>>
        description == <<"description", FieldValue(hGet(h1, tool, "description"))>>
        schema == ObjectLiteral(
                    <<<<"type", Prim("string",
                            IF provider = "gemini" THEN "OBJECT" ELSE "object")>>,
                      <<"properties", out \o <<"properties">>>>,
                      <<"required", out \o <<"required">>>>>>)
    IN  CASE provider \in {"openai", "mistral"} ->
                ((out \o <<"parameters">>) :> schema)
                @@ ((out \o <<"function">>) :>
                        ObjectLiteral(<<name, description,
                                        <<"parameters", out \o <<"parameters">>>>>>))
                @@ (out :> ObjectLiteral(<<<<"type", Prim("string", "function")>>,
                                           <<"function", out \o <<"function">>>>>>))
                @@ h1
          [] provider = "anthropic" ->
                ((out \o <<"input_schema">>) :> schema)
                @@ (out :> ObjectLiteral(<<name, description,
                                <<"input_schema", out \o <<"input_schema">>>>>>))
                @@ h1
          [] provider = "gemini" ->
                ((out \o <<"parameters">>) :> schema)
                @@ (out :> ObjectLiteral(<<name, description,
                                <<"parameters", out \o <<"parameters">>>>>>))
                @@ h1

\* A converter on objects: `tool' is the address of the tool, `out' the
\* address of the object returned.
hAdapter(h, provider, tool, out) ==
    Then(hNew(hNew(h, out \o <<"properties">>, ObjectLiteral(<<>>)),
              out \o <<"required">>, ArrayLiteral(<<>>)),
    LAMBDA h0 :
    Then(hLoop(h0, provider,
               ObjectEntries(h0[Val(hGet(h0, tool, "params"))].own), 1, out),
    LAMBDA h1 : hEnvelope(h1, provider, tool, out)))

\* The address of the n-th output.
OutRoot(n) == <<"ref", "out", IF n = 1 THEN "first" ELSE IF n = 2 THEN "second"
                              ELSE IF n = 3 THEN "third" ELSE "later">>

\* The caller has built one tool.
InitHeap ==
    /\ adapters = AdaptersLiteral
    /\ pc = "idle"
    /\ call = NoCall
    /\ outcome = NoOutcome
    /\ invoked = <<>>
    /\ lookups = 0
    /\ failed = FALSE
    /\ remembered = NoMemory
    /\ frames = NoFrames
    /\ \E tool \in HeapTools :
        /\ heap = StoreTool(tool)
        /\ held = [tool |-> Some(tool), outputs |-> <<>>, edits |-> 0]

\* The caller calls adapt(tool, provider) with its tool and keeps the output.
HeapAdapt ==
    /\ pc = "idle"
    /\ Len(held.outputs) < MaxConversions
    /\ \E provider \in Provider :
        LET out == OutRoot(Len(held.outputs) + 1)
        IN  /\ Lookup(adapters, provider).kind = "converter"
            /\ heap' = hAdapter(heap, provider, ToolRoot, out)
            /\ held' = [held EXCEPT !.outputs =
                            Append(@, [root |-> out, provider |-> provider])]
            /\ call' = [op |-> "adapt", tool |-> Some(ToolRoot),
                        tools |-> Undefined, provider |-> Some(provider)]
            /\ outcome' = Returned(provider, out)
            /\ invoked' = <<Lookup(adapters, provider).name>>
    /\ lookups' = 1
    /\ pc' = "returned"
    /\ UNCHANGED <<adapters, failed, remembered, frames>>

RECURSIVE hAdaptAllFrom(_, _, _, _, _)
\* tools.map(tool => adapt(tool, provider)) on objects, from element i: the
\* outputs are made at the addresses OutRoot(first), OutRoot(first + 1), ...
hAdaptAllFrom(h, provider, tools, i, first) ==
    IF i > Len(tools)
    THEN hNew(h, <<"ref", "all">> \o Tail(OutRoot(first)),
              ArrayLiteral([j \in 1..Len(tools) |-> OutRoot(first + j - 1)]))
    ELSE Then(hAdapter(h, provider, tools[i], OutRoot(first + i - 1)),
         LAMBDA h1 : hAdaptAllFrom(h1, provider, tools, i + 1, first))

\* The caller calls adaptAll([tool, ...], provider) with an array that
\* holds its tool once or more, and keeps the outputs.
HeapAdaptAll ==
    /\ pc = "idle"
    /\ \E provider \in Provider :
        \E n \in 1..(MaxConversions - Len(held.outputs)) :
            LET first == Len(held.outputs) + 1
                tools == [j \in 1..n |-> ToolRoot]
            IN  /\ Lookup(adapters, provider).kind = "converter"
                /\ heap' = hAdaptAllFrom(heap, provider, tools, 1, first)
                /\ held' = [held EXCEPT !.outputs =
                                @ \o [j \in 1..n |->
                                        [root |-> OutRoot(first + j - 1),
                                         provider |-> provider]]]
                /\ call' = [op |-> "adaptAll", tool |-> Undefined,
                            tools |-> Some(tools), provider |-> Some(provider)]
                /\ outcome' = Returned(provider,
                                       <<"ref", "all">> \o Tail(OutRoot(first)))
                /\ invoked' = [j \in 1..n |-> Lookup(adapters, provider).name]
                /\ lookups' = n
    /\ pc' = "returned"
    /\ UNCHANGED <<adapters, failed, remembered, frames>>

\* The caller appends a value to an array it reaches from an output.
EditArray ==
    /\ held.edits < MaxEdits
    /\ \E i \in 1..Len(held.outputs) :
        \E a \in Reach(heap, held.outputs[i].root) :
            /\ heap[a].array
            /\ heap' = hPush(heap, a, Prim("string", "kelvin"))
    /\ held' = [held EXCEPT !.edits = @ + 1]
    /\ UNCHANGED <<adapters, pc, call, outcome, invoked, lookups, failed,
                   remembered, frames>>

\* The caller sets a field of an object it reaches from an output.
EditObject ==
    /\ held.edits < MaxEdits
    /\ \E i \in 1..Len(held.outputs) :
        \E a \in Reach(heap, held.outputs[i].root) :
            /\ ~heap[a].array
            /\ heap' = hSet(heap, a, "type", Prim("string", "integer"))
    /\ held' = [held EXCEPT !.edits = @ + 1]
    /\ UNCHANGED <<adapters, pc, call, outcome, invoked, lookups, failed,
                   remembered, frames>>

NextHeap ==
    \/ HeapAdapt
    \/ HeapAdaptAll
    \/ EditArray
    \/ EditObject
    \/ Continue

SpecHeap == InitHeap /\ [][NextHeap]_vars

(***************************************************************************)
(* Overlapping calls.  Each caller's call has its own activation; a call   *)
(* advances by one statement group at a time (the registry lookup, one     *)
(* iteration of the loop over the parameters, the return), and the steps   *)
(* of the callers interleave in any order.                                 *)
(***************************************************************************)

\* The declarations `const properties = {}' and `const required = []' are
\* inside the converter: every activation has its own, here the caller's.
LocalsOfModule(c) == "first"

Locals(c) == c

\* convertParam of the converter registered for `provider'.
convertParam(provider, param) ==
    CASE provider = "openai" -> openaiConvertParam(param)
      [] provider = "anthropic" -> anthropicConvertParam(param)
      [] provider = "gemini" -> geminiConvertParam(param)
      [] provider = "mistral" -> mistralConvertParam(param)

\* The object literal a converter returns, from the accumulators its loop
\* left.
ReturnLiteral(provider, tool, acc) ==
    LET schema == [type |-> IF provider = "gemini" THEN "OBJECT" ELSE "object",
                   properties |-> acc.properties,
                   required |-> acc.required]
    IN  CASE provider \in {"openai", "mistral"} ->
                [type |-> "function",
                 function |-> [name |-> tool.name,
                               description |-> tool.description,
                               parameters |-> schema]]
          [] provider = "anthropic" ->
                [name |-> tool.name, description |-> tool.description,
                 input_schema |-> schema]
          [] provider = "gemini" ->
                [name |-> tool.name, description |-> tool.description,
                 parameters |-> schema]

\* The tools, the tool sequences and the identifiers of the overlapping
\* calls.
CallerTools == {t \in BatchTools : t.params # <<>>}

CallerBatches ==
    {<<t>> : t \in CallerTools}
    \cup {s \in CallerTools \X CallerTools : s[1] # s[2]}

CallerProviders == {"gemini", "mistral", "invalid"}

\* The frames after a step of caller c: every other call in progress has
\* been overlapped by it.
Mark(c, f) ==
    [d \in Callers |->
        IF d # c /\ f[d].pos \in {"resolve", "loop"}
        THEN [f[d] EXCEPT !.overlapped = TRUE] ELSE f[d]]

\* Caller c calls adapt(tool, provider) or adaptAll(tools, provider).
Enter(c) ==
    /\ frames[c].pos = "idle"
    /\ \E op \in {"adapt", "adaptAll"}, tools \in CallerBatches,
          provider \in CallerProviders :
        /\ op = "adapt" => Len(tools) = 1
        /\ frames' = Mark(c, [frames EXCEPT ![c] =
                [NoFrame EXCEPT !.pos = "resolve", !.op = op, !.tools = tools,
                                !.provider = provider, !.k = 1]])
    /\ UNCHANGED <<adapters, pc, call, outcome, invoked, lookups, failed,
                   remembered, heap, held>>

\* adapt for the k-th tool: `const adapter = adapters[provider]', the throw
\* when there is none, else the entry into the converter and its two
\* declarations.
Resolve(c) ==
    /\ frames[c].pos = "resolve"
    /\ LET f == frames[c]
       IN  IF Lookup(adapters, f.provider).kind = "converter"
           THEN frames' = Mark(c, [frames EXCEPT
                    ![c].pos = "loop", ![c].i = 1,
                    ![Locals(c)].acc = LoopStart])
           ELSE frames' = Mark(c, [frames EXCEPT
                    ![c].pos = "returned",
                    ![c].result = adapt(adapters, f.tools[f.k], f.provider).outcome])
    /\ UNCHANGED <<adapters, pc, call, outcome, invoked, lookups, failed,
                   remembered, heap, held>>

\* One iteration of the converter's loop over Object.entries(tool.params).
Iterate(c) ==
    /\ frames[c].pos = "loop"
    /\ LET f == frames[c]
           entries == ObjectEntries(f.tools[f.k].params)
           acc == frames[Locals(c)].acc
       IN  /\ f.i <= Len(entries)
           /\ frames' = Mark(c, [frames EXCEPT
                ![c].i = f.i + 1,
                ![Locals(c)].acc =
                    [properties |->
                        ObjectSet(acc.properties, entries[f.i][1],
                                  convertParam(f.provider, entries[f.i][2])),
                     required |->
                        IF BooleanTruthy(entries[f.i][2].required)
                        THEN Append(acc.required, entries[f.i][1])
                        ELSE acc.required]])
    /\ UNCHANGED <<adapters, pc, call, outcome, invoked, lookups, failed,
                   remembered, heap, held>>

\* The converter's return after the loop: adapt returns the value; the map
\* of adaptAll goes on to its next element or returns the list.
Finish(c) ==
    /\ frames[c].pos = "loop"
    /\ LET f == frames[c]
           value == ReturnLiteral(f.provider, f.tools[f.k], frames[Locals(c)].acc)
       IN  /\ f.i > Len(ObjectEntries(f.tools[f.k].params))
           /\ frames' = Mark(c,
                IF f.op = "adapt"
                THEN [frames EXCEPT ![c].pos = "returned",
                                    ![c].result = Returned(f.provider, value)]
                ELSE IF f.k = Len(f.tools)
                THEN [frames EXCEPT ![c].pos = "returned",
                                    ![c].values = Append(f.values, value),
                                    ![c].result =
                                        Returned("list", Append(f.values, value))]
                ELSE [frames EXCEPT ![c].pos = "resolve",
                                    ![c].k = f.k + 1,
                                    ![c].values = Append(f.values, value)])
    /\ UNCHANGED <<adapters, pc, call, outcome, invoked, lookups, failed,
                   remembered, heap, held>>

\* Caller c has its result and is ready for its next call.
Leave(c) ==
    /\ frames[c].pos = "returned"
    /\ frames' = [frames EXCEPT ![c] = NoFrame]
    /\ UNCHANGED <<adapters, pc, call, outcome, invoked, lookups, failed,
                   remembered, heap, held>>

NextCallers ==
    \E c \in Callers :
        \/ Enter(c)
        \/ Resolve(c)
        \/ Iterate(c)
        \/ Finish(c)
        \/ Leave(c)

SpecCallers == Init /\ [][NextCallers]_vars

(***************************************************************************)
(* The lists getProviders returns, as objects the caller holds and edits   *)
(***************************************************************************)

\* A getProviders that returns one list kept at module level.
ProvidersAddressCached(n) == <<"ref", "providers", "first">>

\* The address of the array the n-th Object.keys(adapters) makes: Object.keys
\* makes a new array on every call.
ProvidersAddress(n) == <<"ref", "providers", OutRoot(n)[3]>>

\* Object.keys(adapters) as an array object.
KeysArray(registry) ==
    ArrayLiteral([i \in 1..Len(getProviders(registry)) |->
                    Prim("string", getProviders(registry)[i])])

\* The caller calls getProviders() and keeps the list.
ListProviders ==
    /\ pc = "idle"
    /\ Len(held.outputs) < MaxConversions
    /\ LET a == ProvidersAddress(Len(held.outputs) + 1)
       IN  /\ heap' = hNew(heap, a, KeysArray(adapters))
           /\ held' = [held EXCEPT !.outputs =
                            Append(@, [root |-> a, provider |-> ""])]
           /\ outcome' = Returned("providers", a)
    /\ invoked' = <<>>
    /\ lookups' = 0
    /\ call' = [op |-> "getProviders", tool |-> Undefined, tools |-> Undefined,
                provider |-> Undefined]
    /\ pc' = "returned"
    /\ UNCHANGED <<adapters, failed, remembered, frames>>

\* What a caller does to a list: it removes the first identifier, adds an
\* identifier of its own, or reverses the list.
ListEdits(elems) ==
    {Tail(elems),
     Append(elems, Prim("string", "unknown")),
     [i \in 1..Len(elems) |-> elems[Len(elems) + 1 - i]]}

\* Between two calls the caller modifies a list it holds.
EditList ==
    /\ pc = "idle"
    /\ held.edits < MaxEdits
    /\ \E i \in 1..Len(held.outputs) :
        \E elems \in ListEdits(heap[held.outputs[i].root].elems) :
            heap' = [heap EXCEPT ![held.outputs[i].root].elems = elems]
    /\ held' = [held EXCEPT !.edits = @ + 1]
    /\ UNCHANGED <<adapters, pc, call, outcome, invoked, lookups, failed,
                   remembered, frames>>

NextLists ==
    \/ ListProviders
    \/ EditList
    \/ AdaptAgain
    \/ Continue

SpecLists == Init /\ [][NextLists]_vars

(***************************************************************************)
(* Reading a call and its outcome                                          *)
(***************************************************************************)
IsCall(op) == pc = "returned" /\ call.op = op

CallProvider == Val(call.provider)
CallTool == Val(call.tool)
CallTools == Val(call.tools)

\* The error is the unknown-provider error for identifier `id'.
IsUnknownProviderError(o, id) ==
    /\ o.kind = "throw"
    /\ o.value = Undefined
    /\ Val(o.error).name = "Error"
    /\ Val(o.error).head = "Unknown provider: "
    /\ Val(o.error).provider = Some(id)

\* The schema container of a converter's output.
Schema(provider, out) ==
    CASE provider \in {"openai", "mistral"} -> out.function.parameters
      [] provider = "anthropic" -> out.input_schema
      [] provider = "gemini" -> out.parameters

\* The object that carries the name and the description.
Header(provider, out) ==
    IF provider \in {"openai", "mistral"} THEN out.function ELSE out

\* A successful adapt call for a registered provider.
Converted == IsCall("adapt") /\ CallProvider \in Provider /\ outcome.kind = "return"

ConvertedSchema == Schema(CallProvider, Val(outcome.value))

(***************************************************************************)
(* Claims                                                                  *)
(***************************************************************************)

\* C1: adapt with any identifier other than the four registered ones fails
\* with the unknown-provider error for that identifier, invokes no function
\* through the registry and returns no value.
C1_UnknownProviderAlwaysFails ==
    (IsCall("adapt") /\ CallProvider \notin Provider) =>
        /\ IsUnknownProviderError(outcome, CallProvider)
        /\ invoked = <<>>

\* C2: whenever adapt fails for an unregistered identifier, the error
\* carries that identifier and the list of the four valid identifiers in the
\* order openai, anthropic, gemini, mistral, the list getProviders returns.
C2_FailureCarriesIdAndProviders ==
    (IsCall("adapt") /\ CallProvider \notin Provider /\ outcome.kind = "throw") =>
        /\ Val(outcome.error).provider = Some(CallProvider)
        /\ Val(outcome.error).providers =
                Some(<<"openai", "anthropic", "gemini", "mistral">>)
        /\ Val(outcome.error).providers = Some(getProviders(adapters))

\* C3: adaptAll with an unregistered identifier fails with the
\* unknown-provider error for every sequence of tools, the empty one
\* included, before any element is converted.
C3_AdaptAllFailsFast ==
    (IsCall("adaptAll") /\ CallProvider \notin Provider) =>
        /\ IsUnknownProviderError(outcome, CallProvider)
        /\ invoked = <<>>

\* C4: for a registered provider adaptAll returns a sequence as long as its
\* input whose i-th element is what adapt returns for the i-th tool; the
\* empty sequence maps to the empty sequence.
C4_AdaptAllMapsAdapt ==
    (IsCall("adaptAll") /\ CallProvider \in Provider) =>
        /\ outcome.kind = "return"
        /\ Len(Val(outcome.value)) = Len(CallTools)
        /\ \A i \in 1..Len(CallTools) :
             Some(Val(outcome.value)[i]) =
                adapt(adapters, CallTools[i], CallProvider).outcome.value

C4_Witness ==
    /\ IsCall("adaptAll") /\ CallProvider \in Provider
    /\ Len(CallTools) >= 2 /\ CallTools[1] # CallTools[2]
    /\ outcome.kind = "return"

\* C5: in every reachable state, after failing calls too, getProviders
\* returns exactly openai, anthropic, gemini and mistral, each once, and a
\* getProviders call returns that list.
C5_ProvidersAreTheFour ==
    /\ Range(getProviders(adapters)) = Provider
    /\ Len(getProviders(adapters)) = Cardinality(Provider)
    /\ IsCall("getProviders") =>
         /\ outcome.kind = "return"
         /\ Range(Val(outcome.value)) = Provider
         /\ Len(Val(outcome.value)) = Cardinality(Provider)

C5_Witness == IsCall("getProviders") /\ outcome.kind = "return" /\ failed

\* C6: the name and the description found at the provider's path in
\* adapt(T, P) equal T.name and T.description.
C6_NameDescriptionPassThrough ==
    Converted =>
        /\ Header(CallProvider, Val(outcome.value)).name = CallTool.name
        /\ Header(CallProvider, Val(outcome.value)).description =
                CallTool.description

C6_Witness ==
    /\ Converted /\ CallProvider = "gemini"
    /\ CallTool.name # toUpperCase(CallTool.name)
    /\ IsDefined(CallTool.description)

\* C7: the required list of adapt(T, P) holds exactly the names of the
\* parameters of T whose required is true.
C7_RequiredSet ==
    Converted =>
        Range(ConvertedSchema.required) =
            {e[1] : e \in {x \in Range(CallTool.params) : x[2].required = Some(TRUE)}}

C7_Witness ==
    /\ Converted
    /\ \E e \in Range(CallTool.params) : e[2].required = Some(TRUE)
    /\ \E e \in Range(CallTool.params) : e[2].required = Some(FALSE)

\* C8: the keys of the output properties mapping are exactly the parameter
\* names of T, whatever these names are.
C8_NoParameterDropped ==
    Converted =>
        Range(OwnKeys(ConvertedSchema.properties)) = Range(Keys(CallTool.params))

\* C9: for every parameter with an enum sequence, the output property's
\* enum is that sequence: same elements, same order, duplicates kept, no
\* element case-transformed.
C9_EnumVerbatim ==
    Converted =>
        \A e \in Range(CallTool.params) :
            IsDefined(e[2].enum) =>
                /\ IsDefined(ObjectGet(ConvertedSchema.properties, e[1]))
                /\ Val(ObjectGet(ConvertedSchema.properties, e[1])).enum = e[2].enum

C9_Witness ==
    /\ Converted /\ CallProvider = "gemini"
    /\ \E e \in Range(CallTool.params) :
        /\ IsDefined(e[2].enum)
        /\ Len(Val(e[2].enum)) = 3
        /\ Val(e[2].enum)[1] = Val(e[2].enum)[3]
        /\ Val(ObjectGet(ConvertedSchema.properties, e[1])).type = "STRING"

\* C10: for every parameter with a default value, the falsy values 0, false
\* and "" included, the output property has a default holding that value.
C10_DefaultVerbatim ==
    Converted =>
        \A e \in Range(CallTool.params) :
            IsDefined(e[2].default) =>
                /\ IsDefined(ObjectGet(ConvertedSchema.properties, e[1]))
                /\ Val(ObjectGet(ConvertedSchema.properties, e[1])).default =
                        e[2].default

C10_Witness ==
    /\ Converted
    /\ \E e \in Range(CallTool.params) :
        /\ e[2].default = Some(JsNumber("0"))
        /\ e[2].type = "string"
        /\ Val(ObjectGet(ConvertedSchema.properties, e[1])).default =
                Some(JsNumber("0"))

\* The property descriptors of an output properties object: its own values
\* and, where an assignment to "__proto__" replaced it, its prototype.
Descriptors(properties) ==
    {e[2] : e \in Range(properties.own)} \cup
    (IF IsDefined(properties.proto) THEN {Val(properties.proto)} ELSE {})

\* The type tags Gemini expects.
GeminiTag(kind) ==
    CASE kind = "string" -> "STRING"
      [] kind = "number" -> "NUMBER"
      [] kind = "boolean" -> "BOOLEAN"
      [] kind = "array" -> "ARRAY"
      [] kind = "object" -> "OBJECT"

\* C11: a tool with an empty params mapping converts, for every provider,
\* to a schema container with an empty properties mapping, an empty
\* required list and the provider's constant container type.
C11_EmptyParams ==
    (Converted /\ CallTool.params = <<>>) =>
        /\ DOMAIN ConvertedSchema = {"type", "properties", "required"}
        /\ ConvertedSchema.properties = [own |-> <<>>, proto |-> Undefined]
        /\ ConvertedSchema.required = <<>>
        /\ ConvertedSchema.type =
                (IF CallProvider = "gemini" THEN "OBJECT" ELSE "object")

C11_Witness ==
    /\ Converted /\ CallTool.params = <<>> /\ CallProvider = "gemini"
    /\ ConvertedSchema.required = <<>>

\* C12: the openai and mistral outputs have exactly the top-level keys type
\* and function, type = "function"; function has exactly name, description
\* and parameters; parameters has exactly type, properties and required,
\* type = "object".
C12_FunctionEnvelope ==
    (Converted /\ CallProvider \in {"openai", "mistral"}) =>
        LET out == Val(outcome.value)
        IN  /\ DOMAIN out = {"type", "function"}
            /\ out.type = "function"
            /\ DOMAIN out.function = {"name", "description", "parameters"}
            /\ DOMAIN out.function.parameters = {"type", "properties", "required"}
            /\ out.function.parameters.type = "object"

C12_Witness ==
    /\ Converted /\ CallProvider = "mistral"
    /\ Len(CallTool.params) = 2
    /\ Val(outcome.value).type = "function"

\* C13: the anthropic output is flat: its top-level keys are exactly name,
\* description and input_schema (no type, no function); input_schema has
\* exactly type, properties and required, type = "object".
C13_AnthropicEnvelope ==
    (Converted /\ CallProvider = "anthropic") =>
        LET out == Val(outcome.value)
        IN  /\ DOMAIN out = {"name", "description", "input_schema"}
            /\ DOMAIN out.input_schema = {"type", "properties", "required"}
            /\ out.input_schema.type = "object"

C13_Witness ==
    /\ Converted /\ CallProvider = "anthropic"
    /\ Len(CallTool.params) = 2
    /\ Val(outcome.value).input_schema.type = "object"

\* C14: the gemini output is flat with top-level keys exactly name,
\* description and parameters; the container tag is "OBJECT", every
\* property tag and items tag is the upper-cased kind and none is lower
\* case; the tool name, the parameter names, the descriptions and the enum
\* values are not upper-cased.
C14_GeminiUpperCase ==
    (Converted /\ CallProvider = "gemini") =>
        LET out == Val(outcome.value)
        IN  /\ DOMAIN out = {"name", "description", "parameters"}
            /\ out.parameters.type = "OBJECT"
            /\ out.name = CallTool.name
            /\ Range(OwnKeys(out.parameters.properties))
                    \subseteq Range(Keys(CallTool.params))
            /\ \A d \in Descriptors(out.parameters.properties) :
                /\ d.type \notin ParamType
                /\ IsDefined(d.items) => Val(d.items).type \notin ParamType
            /\ \A e \in Range(CallTool.params) :
                LET d == Val(ObjectGet(out.parameters.properties, e[1]))
                IN  /\ d.type = GeminiTag(e[2].type)
                    /\ (e[2].type = "array" /\ IsDefined(e[2].items)) =>
                            d.items = Some([type |-> GeminiTag(Val(e[2].items).type)])
                    /\ StringTruthy(e[2].description) =>
                            d.description = e[2].description
                    /\ IsDefined(e[2].enum) => d.enum = e[2].enum

C14_Witness ==
    /\ Converted /\ CallProvider = "gemini"
    /\ \E e \in Range(CallTool.params) :
        /\ e[2].type = "array" /\ e[2].items = Some([type |-> "string"])
        /\ e[2].description = Some("City name")
        /\ IsDefined(e[2].enum) /\ Len(Val(e[2].enum)) = 3
        /\ Val(ObjectGet(ConvertedSchema.properties, e[1])).items =
                Some([type |-> "STRING"])

\* C15: under openai, anthropic and mistral the property's type tag is the
\* input kind unchanged and, for an array parameter with an item kind, the
\* items type is the item kind unchanged; under gemini {type: array,
\* items: {type: string}} yields {type: "ARRAY", items: {type: "STRING"}}.
C15_TypeTags ==
    Converted =>
        \A e \in Range(CallTool.params) :
            LET d == Val(ObjectGet(ConvertedSchema.properties, e[1]))
            IN  /\ CallProvider # "gemini" =>
                    /\ d.type = e[2].type
                    /\ (e[2].type = "array" /\ IsDefined(e[2].items)) =>
                            d.items = Some([type |-> Val(e[2].items).type])
                /\ (/\ CallProvider = "gemini" /\ e[2].type = "array"
                    /\ e[2].items = Some([type |-> "string"])) =>
                        d.type = "ARRAY" /\ d.items = Some([type |-> "STRING"])

C15_Witness ==
    /\ Converted /\ CallProvider = "openai"
    /\ \E e \in Range(CallTool.params) :
        /\ e[2].type = "array" /\ e[2].items = Some([type |-> "string"])
        /\ Val(ObjectGet(ConvertedSchema.properties, e[1])).type = "array"
        /\ Val(ObjectGet(ConvertedSchema.properties, e[1])).items =
                Some([type |-> "string"])

\* C19: for every tool, the mistral output equals the openai output in
\* every key and value.
C19_MistralEqualsOpenai ==
    (Converted /\ CallProvider = "mistral") =>
        Val(outcome.value) = openaiAdapter(CallTool)

C19_Witness ==
    /\ Converted /\ CallProvider = "mistral"
    /\ \E e \in Range(CallTool.params) :
        /\ e[2].default = Some(JsBoolean("false"))
        /\ e[2].description = Some("")
        /\ IsDefined(e[2].enum)
    /\ Val(outcome.value) = openaiAdapter(CallTool)

\* C20: for every registered provider and every tool, a tool without a
\* description or with no parameter included, adapt returns an output with
\* the provider's full envelope; and the unknown-provider error is the only
\* failure a public operation produces.
C20_TotalAndOnlyUnknownProvider ==
    /\ (IsCall("adapt") /\ CallProvider \in Provider) =>
            /\ outcome.kind = "return"
            /\ DOMAIN ConvertedSchema = {"type", "properties", "required"}
    /\ (pc = "returned" /\ outcome.kind = "throw") =>
            IsUnknownProviderError(outcome, CallProvider)

\* C18: two adapt calls with equal arguments, for a registered provider,
\* return equal outputs whatever calls, failing or not, were made between
\* them.
C18_SameArgumentsSameOutput ==
    (/\ IsCall("adapt") /\ CallProvider \in Provider
     /\ remembered.call = call) =>
        outcome = remembered.outcome

C18_Witness ==
    /\ IsCall("adapt") /\ CallProvider \in Provider
    /\ remembered.call = call
    /\ ~remembered.failed /\ failed
    /\ Len(CallTool.params) = 2
    /\ outcome = remembered.outcome

\* The objects of the input: the tool and what it refers to.
InputObjects(h) == Reach(h, ToolRoot)

\* C16: no converter mutates its input.  Over a step in which adapt or
\* adaptAll runs a registered provider's converter on the caller's tool, the
\* tool, its params mapping and every parameter definition, with its enum
\* array, its default and its items, are after the call exactly the objects
\* they were before it.
C16_InputUnchanged ==
    [][(pc = "idle" /\ pc' = "returned")
        => /\ InputObjects(heap') = InputObjects(heap)
           /\ \A a \in InputObjects(heap) : heap'[a] = heap[a]]_vars

\* A conversion has returned for a tool whose parameters carry an enum array
\* and an items object, and the output holds a property made from them.
C16_Witness ==
    /\ pc = "returned"
    /\ IsDefined(call.provider) /\ Val(call.provider) \in Provider
    /\ held.outputs # <<>>
    /\ \E a \in InputObjects(heap) : heap[a].array
    /\ \E a \in InputObjects(heap) : HasOwn(heap[a], "items")
    /\ \E a \in Reach(heap, held.outputs[1].root) :
        a \notin InputObjects(heap) /\ HasOwn(heap[a], "items")

\* C17: every converter produces a fresh output.  No object reachable from
\* an output the caller holds is an object of the input, and whatever the
\* caller does to an output, the input stays the tool the caller built.
C17_OutputIsFresh ==
    /\ \A i \in 1..Len(held.outputs) :
        Reach(heap, held.outputs[i].root) \cap InputObjects(heap) = {}
    /\ IsDefined(held.tool) =>
        \A a \in DOMAIN StoreTool(Val(held.tool)) :
            heap[a] = StoreTool(Val(held.tool))[a]

\* The documented preconditions of a conversion: a non-empty name, a
\* non-empty description and a valid type for every parameter.
MeetsPreconditions(tool) ==
    /\ tool.name # ""
    /\ StringTruthy(tool.description)
    /\ \A e \in Range(tool.params) : e[2].type \in ParamType

\* The value of a key is undefined or null.
IsNullish(o) == ~IsDefined(o) \/ Val(o).t \in {"null", "undefined"}

\* C21: no undefined/null leakage.  For every tool that meets the
\* preconditions, whatever its optional parameter fields hold, and every
\* registered provider, the output carries a name and a description, and no
\* key of a property descriptor holds undefined or null.
C21_NoNullLeak ==
    (Converted /\ MeetsPreconditions(CallTool)) =>
        /\ IsDefined(Header(CallProvider, Val(outcome.value)).description)
        /\ \A d \in Descriptors(ConvertedSchema.properties) :
            IsDefined(d.default) => ~IsNullish(d.default)

\* The keys of a property descriptor: `type', and every optional key that
\* was assigned.
DescriptorKeys(d) == {k \in DOMAIN d : k = "type" \/ IsDefined(d[k])}

\* C22: the descriptor of every parameter has exactly the keys type,
\* description when the parameter's description is non-empty (then the same
\* string), enum when an enum was supplied, default when a default was
\* supplied, items when the kind is array and an item kind is present; the
\* required flag and the nested properties are never keys of it.
C22_DescriptorKeys ==
    Converted =>
        \A e \in Range(CallTool.params) :
            LET d == Val(ObjectGet(ConvertedSchema.properties, e[1]))
            IN  /\ DescriptorKeys(d) =
                        {"type"}
                        \cup (IF StringTruthy(e[2].description)
                              THEN {"description"} ELSE {})
                        \cup (IF IsDefined(e[2].enum) THEN {"enum"} ELSE {})
                        \cup (IF IsDefined(e[2].default) THEN {"default"} ELSE {})
                        \cup (IF e[2].type = "array" /\ IsDefined(e[2].items)
                              THEN {"items"} ELSE {})
                /\ StringTruthy(e[2].description) =>
                        d.description = e[2].description

\* A required object parameter with an empty description, a default, an
\* item kind and nested properties was converted to {type, default}.
C22_Witness ==
    /\ Converted
    /\ \E e \in Range(CallTool.params) :
        /\ e[2].type = "object"
        /\ e[2].required = Some(TRUE)
        /\ IsDefined(e[2].items) /\ IsDefined(e[2].properties)
        /\ DescriptorKeys(Val(ObjectGet(ConvertedSchema.properties, e[1]))) =
                {"type", "default"}
    /\ \E e \in Range(CallTool.params) :
        /\ e[2].description = Some("")
        /\ "description" \notin
                DescriptorKeys(Val(ObjectGet(ConvertedSchema.properties, e[1])))

\* C23: items is attached only to array parameters and holds exactly one
\* key, type, equal to the provider-cased item kind.  A parameter of another
\* kind gets no items even when an item kind is supplied, an array parameter
\* without an item kind gets none, and no other field of the input's items
\* is carried over.
C23_ItemsOnlyType ==
    Converted =>
        \A e \in Range(CallTool.params) :
            LET d == Val(ObjectGet(ConvertedSchema.properties, e[1]))
            IN  IF e[2].type = "array" /\ IsDefined(e[2].items)
                THEN /\ IsDefined(d.items)
                     /\ DOMAIN Val(d.items) = {"type"}
                     /\ Val(d.items).type =
                            (IF CallProvider = "gemini"
                             THEN GeminiTag(Val(e[2].items).type)
                             ELSE Val(e[2].items).type)
                ELSE ~IsDefined(d.items)

\* An array parameter whose items carries a description besides its type
\* was converted: the output items holds the type alone.
C23_Witness ==
    /\ Converted
    /\ CallProvider # "gemini"
    /\ \E e \in Range(CallTool.params) :
        /\ e[2].type = "array"
        /\ IsDefined(e[2].items)
        /\ DOMAIN Val(e[2].items) = {"type", "description"}
        /\ Val(ObjectGet(ConvertedSchema.properties, e[1])).items =
                Some([type |-> "number"])

IsRequired(e) == BooleanTruthy(e[2].required)

\* C24: the required list names each required parameter exactly once, in
\* the insertion order of the input params mapping.
C24_RequiredInInsertionOrder ==
    Converted =>
        ConvertedSchema.required = Keys(SelectSeq(CallTool.params, IsRequired))

\* C25: adaptAll resolves the provider exactly once per call, before the
\* first element is converted, whatever the number of tools: one registry
\* lookup, and after a failure no converter was invoked.
C25_ResolvesOnce ==
    IsCall("adaptAll") =>
        /\ lookups = 1
        /\ outcome.kind = "throw" => invoked = <<>>

\* C26: dispatch selects the converter registered under the requested
\* identifier and no other.  adapt(tool, "openai") is openaiAdapter(tool),
\* and so for anthropic, gemini and mistral; one converter is invoked,
\* once, per successful adapt call.
C26_Dispatch ==
    (IsCall("adapt") /\ CallProvider \in Provider) =>
        /\ outcome.kind = "return"
        /\ Val(outcome.value) =
            (CASE CallProvider = "openai" -> openaiAdapter(CallTool)
               [] CallProvider = "anthropic" -> anthropicAdapter(CallTool)
               [] CallProvider = "gemini" -> geminiAdapter(CallTool)
               [] CallProvider = "mistral" -> mistralAdapter(CallTool))
        /\ invoked =
            (CASE CallProvider = "openai" -> <<"openaiAdapter">>
               [] CallProvider = "anthropic" -> <<"anthropicAdapter">>
               [] CallProvider = "gemini" -> <<"geminiAdapter">>
               [] CallProvider = "mistral" -> <<"mistralAdapter">>)

\* adapt returned for gemini on a tool with a parameter: the output is
\* gemini's and differs from what the anthropic converter makes of the tool.
C26_Witness ==
    /\ Converted
    /\ CallProvider = "gemini"
    /\ CallTool.params # <<>>
    /\ invoked = <<"geminiAdapter">>
    /\ Val(outcome.value) # anthropicAdapter(CallTool)
    /\ Val(outcome.value).parameters.type = "OBJECT"

\* C27: a failed call leaves nothing behind.  Once adapt or adaptAll has
\* failed, the registry still pairs the four identifiers with their
\* converters, getProviders and the list in a later unknown-provider error
\* are the four identifiers, an adapt call made before the failure returns
\* the same when it is made again, and the failing call itself looked the
\* provider up once and invoked nothing: no retry, no recovery.
C27_FailureLeavesNothing ==
    failed =>
        /\ adapters = AdaptersLiteral
        /\ IsCall("getProviders") =>
                outcome = Returned("providers",
                                   <<"openai", "anthropic", "gemini", "mistral">>)
        /\ (IsCall("adapt") /\ IsUnknownProviderError(outcome, CallProvider)) =>
                /\ Val(outcome.error).providers =
                        Some(<<"openai", "anthropic", "gemini", "mistral">>)
                /\ invoked = <<>>
                /\ lookups = 1
        /\ (IsCall("adapt") /\ ~remembered.failed /\ remembered.call = call) =>
                outcome = remembered.outcome
        /\ (IsCall("adaptAll") /\ CallProvider \in Provider) =>
                /\ outcome.kind = "return"
                /\ \A i \in 1..Len(CallTools) :
                    Some(Val(outcome.value)[i]) =
                        Convert(Lookup(AdaptersLiteral, CallProvider).name,
                                CallTools[i]).value

\* The caller kept a failed adapt call, and a later adapt call for a
\* registered provider on a tool with parameters returned.
C27_Witness ==
    /\ failed
    /\ remembered.failed
    /\ IsUnknownProviderError(remembered.outcome, Val(remembered.call.provider))
    /\ IsCall("adapt") /\ CallProvider \in Provider
    /\ CallTool.params # <<>>
    /\ outcome.kind = "return"

\* The result of the call of caller c when no other call is in progress.
Alone(c) ==
    IF frames[c].op = "adapt"
    THEN adapt(adapters, frames[c].tools[1], frames[c].provider).outcome
    ELSE adaptAll(adapters, frames[c].tools, frames[c].provider).outcome

\* C28: conversions invoked by several callers in any interleaving need no
\* coordination.  Whatever steps of other calls, on the same or on other
\* tools, ran between the steps of a call, its result is that of the same
\* call made alone, so no output holds data of another call.
C28_InterleavingFree ==
    \A c \in Callers :
        frames[c].pos = "returned" => frames[c].result = Alone(c)

\* A call that another caller's steps overlapped has returned a value, while
\* the other caller is in the middle of its loop on other tools.
C28_Witness ==
    \E c \in Callers, d \in Callers :
        /\ c # d
        /\ frames[c].pos = "returned"
        /\ frames[c].overlapped
        /\ frames[c].result.kind = "return"
        /\ frames[d].pos = "loop" /\ frames[d].i = 2
        /\ frames[d].overlapped
        /\ frames[d].tools # frames[c].tools

\* The four identifiers as the elements of an array object.
FourProviders ==
    <<Prim("string", "openai"), Prim("string", "anthropic"),
      Prim("string", "gemini"), Prim("string", "mistral")>>

\* C29: getProviders returns a new list on every call.  Whatever the caller
\* did to the lists returned before, the registry is the literal, the list
\* just returned is an object the caller did not hold and lists the four
\* identifiers, the list in an unknown-provider error is the four, and adapt
\* accepts the four identifiers and rejects an identifier the caller added.
C29_ProvidersListIsNew ==
    /\ adapters = AdaptersLiteral
    /\ IsCall("getProviders") =>
        LET a == Val(outcome.value)
        IN  /\ heap[a].elems = FourProviders
            /\ \A i \in 1..(Len(held.outputs) - 1) : held.outputs[i].root # a
    /\ (IsCall("adapt") /\ CallProvider \in Provider) => outcome.kind = "return"
    /\ (IsCall("adapt") /\ CallProvider = "unknown") =>
        /\ IsUnknownProviderError(outcome, "unknown")
        /\ Val(outcome.error).providers =
                Some(<<"openai", "anthropic", "gemini", "mistral">>)

\* The caller modified the first list it got, and a later getProviders call
\* returned.
C29_Witness ==
    /\ IsCall("getProviders")
    /\ Len(held.outputs) = 2
    /\ held.edits > 0
    /\ heap[held.outputs[1].root].elems # FourProviders
    /\ Val(outcome.value) = held.outputs[2].root

\* A property descriptor with its type tag and its items type tag in upper
\* case, every other key as it is.
UpperDescriptor(d) ==
    [d EXCEPT !.type = GeminiTag(@),
              !.items = IF IsDefined(@)
                        THEN Some([type |-> GeminiTag(Val(@).type)]) ELSE @]

\* An anthropic output with input_schema renamed to parameters and the
\* container tag, the property tags and the items tags in upper case.
RenamedAndUpperCased(out) ==
    [name |-> out.name,
     description |-> out.description,
     parameters |->
        [type |-> GeminiTag(out.input_schema.type),
         properties |->
            [own |-> [i \in 1..Len(out.input_schema.properties.own) |->
                        <<out.input_schema.properties.own[i][1],
                          UpperDescriptor(out.input_schema.properties.own[i][2])>>],
             proto |-> IF IsDefined(out.input_schema.properties.proto)
                       THEN Some(UpperDescriptor(
                                    Val(out.input_schema.properties.proto)))
                       ELSE Undefined],
         required |-> out.input_schema.required]]

\* C30: the gemini and the anthropic converters differ only in the schema
\* key and the casing of the type tags.  For every tool the gemini output is
\* the anthropic output with input_schema renamed to parameters and the
\* container, property and items type tags in upper case.
C30_GeminiIsAnthropicUpperCased ==
    (Converted /\ CallProvider = "gemini") =>
        Val(outcome.value) = RenamedAndUpperCased(anthropicAdapter(CallTool))

\* gemini converted an array parameter with an item kind, an empty enum and
\* a falsy default.
C30_Witness ==
    /\ Converted /\ CallProvider = "gemini"
    /\ \E e \in Range(CallTool.params) :
        /\ e[2].type = "array"
        /\ IsDefined(e[2].items)
        /\ e[2].enum = Some(<<>>)
        /\ e[2].default = Some(JsBoolean("false"))
        /\ e[2].description = Some("")
        /\ Val(ObjectGet(ConvertedSchema.properties, e[1])).type = "ARRAY"
    /\ Val(outcome.value) # anthropicAdapter(CallTool)

====
